---- MODULE Spec2Model ----
(***************************************************************************)
(* openrouter-python-companion: the model filter/sort engine               *)
(* (filters.py, types.py, enums.py) and the string template prompt         *)
(* (prompt/base.py, prompt/string_template.py).                            *)
(*                                                                         *)
(* Python strings whose content is inspected are sequences of one-character*)
(* strings.  Python values whose type is inspected are tagged records      *)
(* [t |-> tag, v |-> payload].  An operation that may raise yields         *)
(* [exc |-> "" or the exception class, v |-> the value returned].          *)
(***************************************************************************)
EXTENDS Integers, Sequences, FiniteSets, TLC

VARIABLES catalog, clientFails, listCalls, invocations, heap, last,
          view, template, params, rendered, files

vars == <<catalog, clientFails, listCalls, invocations, heap, last,
          view, template, params, rendered, files>>

engineVars == <<catalog, clientFails, listCalls, invocations, heap, last>>
viewVars == <<view>>
promptVars == <<template, params, rendered, files>>

----------------------------------------------------------------------------
(* Bounds of the model. *)

MaxCatalog == 3
MaxCalls == 1
MaxLists == 2

----------------------------------------------------------------------------
(* Python values. *)

PyNone == [t |-> "none"]
PyStr(s) == [t |-> "str", v |-> s]
PyInt(n) == [t |-> "int", v |-> n]
PyBool(b) == [t |-> "bool", v |-> b]
PyList(l) == [t |-> "list", v |-> l]
PyObj(fields) == [t |-> "obj", v |-> fields]

Ok(value) == [exc |-> "", v |-> value]
Raise(cls) == [exc |-> cls, v |-> PyNone]

\* bool(x)
Truthy(x) ==
    CASE x.t = "none" -> FALSE
      [] x.t = "str" -> Len(x.v) > 0
      [] x.t = "int" -> x.v # 0
      [] x.t = "bool" -> x.v
      [] x.t = "list" -> Len(x.v) > 0
      [] OTHER -> TRUE

\* hasattr(x, name): only the structures of the catalog carry attributes.
HasAttr(x, name) == x.t = "obj" /\ name \in DOMAIN x.v

\* item in sequence
Contains(seq, item) == \E i \in 1..Len(seq) : seq[i] = item

Range(seq) == {seq[i] : i \in 1..Len(seq)}

RECURSIVE Reverse(_)
Reverse(seq) ==
    IF seq = <<>> THEN <<>> ELSE Append(Reverse(Tail(seq)), Head(seq))

----------------------------------------------------------------------------
(* Characters, in code point order. *)

Ascii ==
    << " ", "$", ".",
       "0", "1", "2", "3", "4", "5", "6", "7", "8", "9",
       "A", "B", "C", "D", "E", "F", "G", "H", "I", "J", "K", "L", "M",
       "N", "O", "P", "Q", "R", "S", "T", "U", "V", "W", "X", "Y", "Z",
       "_",
       "a", "b", "c", "d", "e", "f", "g", "h", "i", "j", "k", "l", "m",
       "n", "o", "p", "q", "r", "s", "t", "u", "v", "w", "x", "y", "z",
       "{", "}" >>

Ord(c) == CHOOSE i \in 1..Len(Ascii) : Ascii[i] = c

Digits == {"0", "1", "2", "3", "4", "5", "6", "7", "8", "9"}
UpperCase == {Ascii[i] : i \in Ord("A")..Ord("Z")}
LowerCase == {Ascii[i] : i \in Ord("a")..Ord("z")}

\* str.lower(), one character: the upper case letters sit 27 places before
\* their lower case forms in Ascii.
LowerChar(c) == IF c \in UpperCase THEN Ascii[Ord(c) - Ord("A") + Ord("a")] ELSE c
Lower(s) == [i \in 1..Len(s) |-> LowerChar(s[i])]

\* keyword in text
IsSubstring(keyword, text) ==
    \E i \in 0..(Len(text) - Len(keyword)) :
        \A j \in 1..Len(keyword) : text[i + j] = keyword[j]

\* a < b for str: lexicographic by code point.
RECURSIVE StrLess(_, _)
StrLess(a, b) ==
    IF b = <<>> THEN FALSE
    ELSE IF a = <<>> THEN TRUE
    ELSE IF Head(a) # Head(b) THEN Ord(Head(a)) < Ord(Head(b))
    ELSE StrLess(Tail(a), Tail(b))

----------------------------------------------------------------------------
(* float.  A finite float is held as a whole number of millionths; the     *)
(* prices of the catalog are decimal strings of at most six decimals.      *)

Inf == [inf |-> TRUE, micro |-> 0]
Finite(micro) == [inf |-> FALSE, micro |-> micro]

FloatLess(x, y) == ~x.inf /\ (y.inf \/ x.micro < y.micro)

\* x * 1_000_000
TimesMillion(x) == IF x.inf THEN Inf ELSE Finite(x.micro * 1000000)

RECURSIVE DigitsValue(_)
DigitsValue(s) ==
    IF s = <<>> THEN 0
    ELSE DigitsValue(SubSeq(s, 1, Len(s) - 1)) * 10 + (Ord(s[Len(s)]) - Ord("0"))

RECURSIVE PadRight(_, _)
PadRight(s, n) == IF Len(s) >= n THEN s ELSE PadRight(Append(s, "0"), n)

\* float(text) for a str: digits with at most one point and at least one
\* digit parse, anything else raises ValueError.
ParseFloat(s) ==
    LET points == {i \in 1..Len(s) : s[i] = "."}
        point == IF points = {} THEN Len(s) + 1 ELSE CHOOSE i \in points : TRUE
        whole == SubSeq(s, 1, point - 1)
        frac == SubSeq(s, point + 1, Len(s))
    IN  IF /\ Cardinality(points) <= 1
           /\ \A i \in 1..Len(s) : s[i] \in Digits \cup {"."}
           /\ Len(whole) + Len(frac) > 0
           /\ Len(frac) <= 6
        THEN Ok(Finite(DigitsValue(whole) * 1000000 + DigitsValue(PadRight(frac, 6))))
        ELSE Raise("ValueError")

\* float(x)
ToFloat(x) ==
    CASE x.t = "str" -> ParseFloat(x.v)
      [] x.t = "int" -> Ok(Finite(x.v * 1000000))
      [] OTHER -> Raise("TypeError")

----------------------------------------------------------------------------
(* The catalog entries of the client.  An attribute the entry does not     *)
(* carry is a field the record does not have.                              *)

DeprecatedText == <<"D", "e", "p", "r", "e", "c", "a", "t", "e", "d">>
RemovedText == <<"T", "o", " ", "b", "e", " ", "R", "E", "M", "O", "V", "E", "D">>
LegacyText == <<"o", "l", "d">>

EntryA ==
    [id |-> <<"a">>,
     name |-> PyStr(<<"m">>),
     pricing |-> PyObj([prompt |-> PyStr(<<"0", ".", "0", "0", "0", "0", "0", "2">>),
                        image |-> PyStr(<<"0", ".", "0", "1">>)]),
     architecture |-> PyObj([input_modalities |-> PyList(<<"text", "image">>)]),
     supported_parameters |-> PyList(<<"response_format">>),
     context_length |-> PyInt(4096),
     canonical_slug |-> PyStr(<<"a">>),
     has_canonical_slug_mismatch |-> PyBool(FALSE)]

EntryB ==
    [id |-> <<"b">>,
     name |-> PyStr(<<>>),
     description |-> PyStr(<<>>),
     pricing |-> PyObj([prompt |-> PyStr(<<"0">>), image |-> PyStr(<<"0">>)]),
     architecture |-> PyObj([input_modalities |-> PyList(<<"text">>)]),
     supported_parameters |-> PyList(<<>>),
     context_length |-> PyNone]

EntryC ==
    [id |-> <<"c">>,
     name |-> PyNone,
     description |-> PyStr(DeprecatedText),
     pricing |-> PyNone,
     architecture |-> PyNone,
     supported_parameters |-> PyList(<<"structured_outputs">>),
     context_length |-> PyInt(0),
     canonical_slug |-> PyStr(<<"c", "1">>),
     has_canonical_slug_mismatch |-> PyBool(TRUE)]

EntryM ==
    [id |-> <<"m">>,
     description |-> PyStr(LegacyText),
     pricing |-> PyObj([prompt |-> PyStr(<<"a", "b", "c">>), image |-> PyNone]),
     architecture |-> PyObj([input_modalities |-> PyList(<<>>)]),
     context_length |-> PyInt(4096),
     has_canonical_slug_mismatch |-> PyBool(FALSE)]

EntryE ==
    [id |-> <<"e">>,
     name |-> PyStr(<<"B">>),
     description |-> PyStr(RemovedText),
     pricing |-> PyObj([prompt |-> PyStr(<<"0", ".", "0", "0", "0", "0", "0", "2">>)]),
     architecture |-> PyObj([tokenizer |-> PyStr(<<"x">>)]),
     supported_parameters |-> PyList(<<"structured_outputs", "reasoning">>),
     context_length |-> PyInt(8192),
     has_canonical_slug_mismatch |-> PyBool(TRUE)]

Entries == {EntryA, EntryB, EntryC, EntryM, EntryE}

OptionalFields ==
    {"name", "description", "pricing", "architecture", "supported_parameters",
     "context_length", "canonical_slug", "has_canonical_slug_mismatch"}

\* The entry without the attributes of `absent`.
Without(entry, absent) == [f \in DOMAIN entry \ absent |-> entry[f]]

\* The catalogs: sequences of entries of distinct ids.
Catalogs ==
    UNION {{c \in [1..n -> Entries] : \A i, j \in 1..n : i # j => c[i].id # c[j].id}
           : n \in 0..MaxCatalog}

----------------------------------------------------------------------------
(* types.py: ModelInfo. *)

ModelInfo(model) == [_model |-> model]

\* getattr(self._model, name, None)
GetattrOrNone(self, attr) ==
    IF attr \in DOMAIN self._model THEN self._model[attr] ELSE PyNone

\* __getattr__: reached for every name the class does not define.
ModelInfoGetattr(self, attr) ==
    IF attr \in DOMAIN self._model THEN Ok(self._model[attr]) ELSE Raise("AttributeError")

id(self) == self._model.id
name(self) == GetattrOrNone(self, "name")
description(self) == GetattrOrNone(self, "description")
pricing(self) == GetattrOrNone(self, "pricing")
architecture(self) == GetattrOrNone(self, "architecture")
supported_parameters(self) == GetattrOrNone(self, "supported_parameters")
context_length(self) == GetattrOrNone(self, "context_length")

get_pricing_per_1m_tokens(self) ==
    IF Truthy(pricing(self)) /\ HasAttr(pricing(self), "prompt")
    THEN LET prompt_price == ToFloat(pricing(self).v.prompt)
         IN  IF prompt_price.exc = ""
             THEN Ok(TimesMillion(prompt_price.v))
             ELSE IF prompt_price.exc \in {"ValueError", "TypeError"}
                  THEN Ok(Inf)
                  ELSE prompt_price
    ELSE Ok(Inf)

get_image_pricing(self) ==
    IF Truthy(pricing(self)) /\ HasAttr(pricing(self), "image")
    THEN LET image_price == ToFloat(pricing(self).v.image)
         IN  IF image_price.exc = ""
             THEN IF FloatLess(Finite(0), image_price.v)
                  THEN Ok([t |-> "float", v |-> image_price.v])
                  ELSE Ok(PyNone)
             ELSE IF image_price.exc \in {"ValueError", "TypeError"}
                  THEN Ok(PyNone)
                  ELSE image_price
    ELSE Ok(PyNone)

is_free(self) ==
    LET p == get_pricing_per_1m_tokens(self)
    IN  IF p.exc = "" THEN Ok(p.v = Finite(0)) ELSE p

has_pricing(self) ==
    LET p == get_pricing_per_1m_tokens(self)
    IN  IF p.exc = "" THEN Ok(FloatLess(p.v, Inf)) ELSE p

supports_images(self) ==
    IF Truthy(architecture(self)) /\ HasAttr(architecture(self), "input_modalities")
    THEN LET modalities == architecture(self).v.input_modalities
         IN  Ok(Truthy(modalities) /\ Contains(modalities.v, "image"))
    ELSE Ok(FALSE)

supports_structured_output(self) ==
    IF Truthy(supported_parameters(self))
    THEN Ok(\/ Contains(supported_parameters(self).v, "response_format")
            \/ Contains(supported_parameters(self).v, "structured_outputs"))
    ELSE Ok(FALSE)

\* ModelInfo defines neither method: both names go through __getattr__ to
\* the wrapped entry.
supports_reasoning(self) ==
    LET found == ModelInfoGetattr(self, "supports_reasoning")
    IN  IF found.exc = "" THEN Ok(found.v.v) ELSE found

has_canonical_slug_mismatch(self) ==
    LET found == ModelInfoGetattr(self, "has_canonical_slug_mismatch")
    IN  IF found.exc = "" THEN Ok(found.v.v) ELSE found

get_sort_name(self) == IF Truthy(name(self)) THEN name(self).v ELSE id(self)

get_context_length_sort(self) ==
    IF Truthy(context_length(self)) THEN context_length(self).v ELSE 0

----------------------------------------------------------------------------
(* enums.py *)

ModelCapability ==
    [NONE |-> 0, IMAGE_INPUT |-> 1, STRUCTURED_OUTPUT |-> 2, MULTIMODAL |-> 1, ALL |-> 3]

\* ModelCapability.<member>
ModelCapabilityAttr(member) ==
    IF member \in DOMAIN ModelCapability
    THEN Ok(ModelCapability[member])
    ELSE Raise("AttributeError")

\* The flag values a caller can build from the members with |.
CapabilityFlags == 0..ModelCapability.ALL

\* a & b on flag values
RECURSIVE FlagAnd(_, _)
FlagAnd(a, b) ==
    IF a = 0 \/ b = 0 THEN 0
    ELSE (a % 2) * (b % 2) + 2 * FlagAnd(a \div 2, b \div 2)

\* a | b on flag values
RECURSIVE FlagOr(_, _)
FlagOr(a, b) ==
    IF a = 0 THEN b
    ELSE IF b = 0 THEN a
    ELSE (IF (a % 2) + (b % 2) > 0 THEN 1 ELSE 0) + 2 * FlagOr(a \div 2, b \div 2)

SortOrder ==
    {"NONE", "PRICE_ASC", "PRICE_DESC", "NAME_ASC", "NAME_DESC",
     "CONTEXT_ASC", "CONTEXT_DESC"}

----------------------------------------------------------------------------
(* types.py: FilterConfig *)

_default_deprecation_keywords ==
    << <<"d", "e", "p", "r", "e", "c", "a", "t", "e", "d">>,
       <<"r", "e", "m", "o", "v", "e", "d">>,
       <<"d", "i", "s", "c", "o", "n", "t", "i", "n", "u", "e", "d">>,
       <<"b", "e", "i", "n", "g", " ", "d", "e", "p", "r", "e", "c", "a", "t", "e", "d">> >>

FilterConfigDefaults ==
    [include_deprecated |-> FALSE,
     deprecation_keywords |-> _default_deprecation_keywords]

\* FilterConfig(**kwargs): the generated __init__ takes the declared fields
\* and no other keyword.
FilterConfig(kwargs) ==
    IF DOMAIN kwargs \subseteq DOMAIN FilterConfigDefaults
    THEN Ok([f \in DOMAIN FilterConfigDefaults |->
                IF f \in DOMAIN kwargs THEN kwargs[f] ELSE FilterConfigDefaults[f]])
    ELSE Raise("TypeError")

----------------------------------------------------------------------------
(* filters.py: ModelFilter *)

_is_deprecated(model, config) ==
    IF ~Truthy(description(model))
    THEN FALSE
    ELSE LET desc_lower == Lower(description(model).v)
         IN  \E k \in 1..Len(config.deprecation_keywords) :
                 IsSubstring(config.deprecation_keywords[k], desc_lower)

_is_problematic_variant(model, config) == has_canonical_slug_mismatch(model)

\* self.client.models.list(details=details): one call on the client, which
\* answers with its catalog or raises.
ClientList(data, fails) ==
    IF fails THEN Raise("ClientError") ELSE Ok(data)

\* [exc, v, calls]: calls counts the list-models calls made.
_fetch_models(data, fails) ==
    LET response == ClientList(data, fails)
    IN  IF response.exc # ""
        THEN [exc |-> "RuntimeError", v |-> <<>>, calls |-> 1, cause |-> response.exc]
        ELSE [exc |-> "", v |-> [i \in 1..Len(response.v) |-> ModelInfo(response.v[i])],
              calls |-> 1, cause |-> ""]

PriceLess(a, b) ==
    FloatLess(get_pricing_per_1m_tokens(a).v, get_pricing_per_1m_tokens(b).v)
NameLess(a, b) == StrLess(get_sort_name(a), get_sort_name(b))
ContextLess(a, b) == get_context_length_sort(a) < get_context_length_sort(b)

\* key(a) < key(b) for the key function named.
KeyLess(key, a, b) ==
    CASE key = "get_pricing_per_1m_tokens" -> PriceLess(a, b)
      [] key = "get_sort_name" -> NameLess(a, b)
      [] key = "get_context_length_sort" -> ContextLess(a, b)

\* Insertion of x after every element whose key is not greater: the order
\* sorted() gives equal keys.
RECURSIVE InsertStable(_, _, _)
InsertStable(sortedSeq, x, key) ==
    IF sortedSeq = <<>> THEN <<x>>
    ELSE IF KeyLess(key, x, Head(sortedSeq))
         THEN <<x>> \o sortedSeq
         ELSE <<Head(sortedSeq)>> \o InsertStable(Tail(sortedSeq), x, key)

\* sorted(models, key=...)
RECURSIVE Sorted(_, _)
Sorted(models, key) ==
    IF models = <<>> THEN <<>>
    ELSE InsertStable(Sorted(SubSeq(models, 1, Len(models) - 1), key),
                      models[Len(models)], key)

\* A descending sort written as the ascending sort reversed.
SortedThenReversed(models, key) == Reverse(Sorted(models, key))

\* sorted(models, key=..., reverse=True): the list is reversed, sorted and
\* reversed again, so equal keys keep their order.
SortedReverse(models, key) == Reverse(Sorted(Reverse(models), key))

_apply_sort(models, sort_order) ==
    CASE sort_order = "PRICE_ASC" -> Sorted(models, "get_pricing_per_1m_tokens")
      [] sort_order = "PRICE_DESC" -> SortedReverse(models, "get_pricing_per_1m_tokens")
      [] sort_order = "NAME_ASC" -> Sorted(models, "get_sort_name")
      [] sort_order = "NAME_DESC" -> SortedReverse(models, "get_sort_name")
      [] sort_order = "CONTEXT_ASC" -> Sorted(models, "get_context_length_sort")
      [] sort_order = "CONTEXT_DESC" -> SortedReverse(models, "get_context_length_sort")
      [] OTHER -> models

\* One pass of the loop body of filter_models: "keep", "skip" or the
\* exception the body raises.
FilterStep(model, capabilities, include_deprecated, include_problematic_variants, config) ==
    LET image == ModelCapabilityAttr("IMAGE_INPUT")
        structured == ModelCapabilityAttr("STRUCTURED_OUTPUT")
        reasoning == ModelCapabilityAttr("REASONING")
    IN  IF image.exc # "" THEN image.exc
        ELSE IF FlagAnd(capabilities, image.v) # 0 /\ ~supports_images(model).v
        THEN "skip"
        ELSE IF structured.exc # "" THEN structured.exc
        ELSE IF FlagAnd(capabilities, structured.v) # 0
                /\ ~supports_structured_output(model).v
        THEN "skip"
        ELSE IF reasoning.exc # "" THEN reasoning.exc
        ELSE IF FlagAnd(capabilities, reasoning.v) # 0
                /\ supports_reasoning(model).exc # ""
        THEN supports_reasoning(model).exc
        ELSE IF FlagAnd(capabilities, reasoning.v) # 0 /\ ~supports_reasoning(model).v
        THEN "skip"
        ELSE IF ~include_deprecated /\ _is_deprecated(model, config)
        THEN "skip"
        ELSE IF ~include_problematic_variants
                /\ _is_problematic_variant(model, config).exc # ""
        THEN _is_problematic_variant(model, config).exc
        ELSE IF ~include_problematic_variants /\ _is_problematic_variant(model, config).v
        THEN "skip"
        ELSE "keep"

\* The loop of filter_models from models[i] on, filtered_models so far.
RECURSIVE FilterLoop(_, _, _, _, _, _, _)
FilterLoop(models, i, filtered_models, capabilities, include_deprecated, include_problematic_variants, config) ==
    IF i > Len(models) THEN Ok(filtered_models)
    ELSE LET step == FilterStep(models[i], capabilities, include_deprecated,
                                include_problematic_variants, config)
         IN  IF step \notin {"keep", "skip"}
             THEN [exc |-> step, v |-> <<>>]
             ELSE FilterLoop(models, i + 1,
                             IF step = "keep"
                             THEN Append(filtered_models, models[i])
                             ELSE filtered_models,
                             capabilities, include_deprecated,
                             include_problematic_variants, config)

\* [exc, v, calls, cause]
filter_models(data, fails, capabilities, include_deprecated, include_problematic_variants, sort_order) ==
    LET config == FilterConfig([include_deprecated |-> include_deprecated,
                                include_problematic_variants |->
                                    include_problematic_variants])
        models == _fetch_models(data, fails)
        filtered == FilterLoop(models.v, 1, <<>>, capabilities, include_deprecated,
                               include_problematic_variants, config.v)
    IN  IF config.exc # ""
        THEN [exc |-> config.exc, v |-> <<>>, calls |-> 0, cause |-> ""]
        ELSE IF models.exc # "" THEN models
        ELSE IF filtered.exc # ""
        THEN [exc |-> filtered.exc, v |-> <<>>, calls |-> models.calls, cause |-> ""]
        ELSE [exc |-> "", v |-> _apply_sort(filtered.v, sort_order),
              calls |-> models.calls, cause |-> ""]

\* _apply_sort sorting the list it is given (models.sort()) and returning it.
ApplySortInPlace(lists, models, sort_order) ==
    [lists |-> [lists EXCEPT ![models] = _apply_sort(lists[models], sort_order)],
     ret |-> models]

\* A call of _apply_sort on the list `models` of `lists`: the lists after
\* the call and the list returned.  sorted() and list() build a new list.
ApplySortCall(lists, models, sort_order) ==
    [lists |-> Append(lists, _apply_sort(lists[models], sort_order)),
     ret |-> Len(lists) + 1]

----------------------------------------------------------------------------
(* The engine as a state machine.  catalog is the list the client answers  *)
(* with, heap the lists the engine has returned to its caller (a list is   *)
(* named by its place in heap), last the outcome of the latest call.       *)

NoArgs == [none |-> TRUE]

Idle == [op |-> "", exc |-> "", cause |-> "", ret |-> 0, calls |-> 0, args |-> NoArgs]

PromptIdle ==
    /\ template = <<>>
    /\ params = <<>>
    /\ rendered = <<>>
    /\ files = <<>>

EngineInit ==
    /\ catalog \in Catalogs
    /\ clientFails = FALSE
    /\ listCalls = 0
    /\ invocations = 0
    /\ heap = <<>>
    /\ last = Idle
    /\ view = <<>>
    /\ PromptIdle

\* The client starts or stops failing (network, credentials, rate limit).
ClientChange ==
    /\ clientFails' = ~clientFails
    /\ UNCHANGED <<catalog, listCalls, invocations, heap, last, viewVars, promptVars>>

FilterModels ==
    \E capabilities \in CapabilityFlags, include_deprecated \in BOOLEAN,
       include_problematic_variants \in BOOLEAN, sort_order \in SortOrder :
        LET r == filter_models(catalog, clientFails, capabilities, include_deprecated,
                               include_problematic_variants, sort_order)
        IN  /\ invocations < MaxCalls
            /\ Len(heap) < MaxLists
            /\ invocations' = invocations + 1
            /\ listCalls' = listCalls + r.calls
            /\ heap' = IF r.exc = "" THEN Append(heap, r.v) ELSE heap
            /\ last' = [op |-> "filter_models", exc |-> r.exc, cause |-> r.cause,
                        ret |-> IF r.exc = "" THEN Len(heap) + 1 ELSE 0,
                        calls |-> r.calls,
                        args |-> [capabilities |-> capabilities,
                                  include_deprecated |-> include_deprecated,
                                  include_problematic_variants |->
                                      include_problematic_variants,
                                  sort_order |-> sort_order]]
            /\ UNCHANGED <<catalog, clientFails, viewVars, promptVars>>

FetchModels ==
    LET r == _fetch_models(catalog, clientFails)
    IN  /\ Len(heap) < MaxLists
        /\ listCalls < MaxCalls
        /\ listCalls' = listCalls + r.calls
        /\ heap' = IF r.exc = "" THEN Append(heap, r.v) ELSE heap
        /\ last' = [op |-> "_fetch_models", exc |-> r.exc, cause |-> r.cause,
                    ret |-> IF r.exc = "" THEN Len(heap) + 1 ELSE 0,
                    calls |-> r.calls, args |-> NoArgs]
        /\ UNCHANGED <<catalog, clientFails, invocations, viewVars, promptVars>>

ApplySort ==
    \E models \in 1..Len(heap), sort_order \in SortOrder :
        LET r == ApplySortCall(heap, models, sort_order)
        IN  /\ Len(heap) < MaxLists
            /\ heap' = r.lists
            /\ last' = [op |-> "_apply_sort", exc |-> "", cause |-> "", ret |-> r.ret,
                        calls |-> 0,
                        args |-> [models |-> models, sort_order |-> sort_order]]
            /\ UNCHANGED <<catalog, clientFails, listCalls, invocations,
                           viewVars, promptVars>>

Next == FilterModels \/ ClientChange

Spec == EngineInit /\ [][Next]_vars

SortNext == FetchModels \/ ApplySort

SpecSort == EngineInit /\ [][SortNext]_vars

FrameNext == FilterModels \/ FetchModels \/ ApplySort \/ ClientChange

SpecFrame == EngineInit /\ [][FrameNext]_vars

----------------------------------------------------------------------------
(* The operations of ModelInfo on one entry, from which any subset of the  *)
(* optional attributes may be absent.                                      *)

Views == {ModelInfo(Without(e, absent)) : e \in Entries, absent \in SUBSET OptionalFields}

EngineIdle ==
    /\ catalog = <<>>
    /\ clientFails = FALSE
    /\ listCalls = 0
    /\ invocations = 0
    /\ heap = <<>>
    /\ last = Idle

ViewInit ==
    /\ view \in Views
    /\ EngineIdle
    /\ PromptIdle

PyFloat(x) == [t |-> "float", v |-> x]

\* The outcome of a call view.<op>(): what it raised or the value returned.
ViewCall(op, r, value) ==
    /\ last' = [op |-> op, exc |-> r.exc, cause |-> "", ret |-> 0, calls |-> 0,
                args |-> [result |-> IF r.exc = "" THEN value ELSE PyNone]]
    /\ UNCHANGED <<catalog, clientFails, listCalls, invocations, heap, view, promptVars>>

GetPricingPer1mTokens ==
    LET r == get_pricing_per_1m_tokens(view)
    IN  ViewCall("get_pricing_per_1m_tokens", r, PyFloat(r.v))

GetImagePricing ==
    LET r == get_image_pricing(view)
    IN  ViewCall("get_image_pricing", r, r.v)

IsFree ==
    LET r == is_free(view) IN ViewCall("is_free", r, PyBool(r.v))

HasPricing ==
    LET r == has_pricing(view) IN ViewCall("has_pricing", r, PyBool(r.v))

SupportsImages ==
    LET r == supports_images(view) IN ViewCall("supports_images", r, PyBool(r.v))

SupportsStructuredOutput ==
    LET r == supports_structured_output(view)
    IN  ViewCall("supports_structured_output", r, PyBool(r.v))

SupportsReasoning ==
    LET r == supports_reasoning(view) IN ViewCall("supports_reasoning", r, PyBool(r.v))

HasCanonicalSlugMismatch ==
    LET r == has_canonical_slug_mismatch(view)
    IN  ViewCall("has_canonical_slug_mismatch", r, PyBool(r.v))

GetSortName ==
    ViewCall("get_sort_name", Ok(PyNone), PyStr(get_sort_name(view)))

GetContextLengthSort ==
    ViewCall("get_context_length_sort", Ok(PyNone), PyInt(get_context_length_sort(view)))

ViewNext ==
    \/ GetPricingPer1mTokens
    \/ GetImagePricing
    \/ IsFree
    \/ HasPricing
    \/ SupportsImages
    \/ SupportsStructuredOutput
    \/ SupportsReasoning
    \/ HasCanonicalSlugMismatch
    \/ GetSortName
    \/ GetContextLengthSort

SpecView == ViewInit /\ [][ViewNext]_vars

----------------------------------------------------------------------------
(* prompt/string_template.py: StringTemplatePrompt over string.Template.   *)

MaxTemplateLen == 4

\* The longest content of a template file, in characters.
MaxFileLen == 2

TemplateChars == {"$", "a", "_", "1", "{", "}"}

IsIdStart(c) == c \in LowerCase \cup UpperCase \cup {"_"}
IsIdChar(c) == IsIdStart(c) \/ c \in Digits

\* The last place of the run of identifier characters that starts at i.
RECURSIVE IdEnd(_, _)
IdEnd(s, i) ==
    IF i + 1 <= Len(s) /\ IsIdChar(s[i + 1]) THEN IdEnd(s, i + 1) ELSE i

\* Template.pattern at the "$" of place i: the alternatives escaped, named,
\* braced and invalid, tried in this order.
TemplateMatch(s, i) ==
    IF i + 1 <= Len(s) /\ s[i + 1] = "$"
    THEN [kind |-> "escaped", name |-> <<>>, stop |-> i + 1]
    ELSE IF i + 1 <= Len(s) /\ IsIdStart(s[i + 1])
    THEN [kind |-> "named", name |-> SubSeq(s, i + 1, IdEnd(s, i + 1)),
          stop |-> IdEnd(s, i + 1)]
    ELSE IF /\ i + 2 <= Len(s)
            /\ s[i + 1] = "{"
            /\ IsIdStart(s[i + 2])
            /\ IdEnd(s, i + 2) + 1 <= Len(s)
            /\ s[IdEnd(s, i + 2) + 1] = "}"
    THEN [kind |-> "braced", name |-> SubSeq(s, i + 2, IdEnd(s, i + 2)),
          stop |-> IdEnd(s, i + 2) + 1]
    ELSE [kind |-> "invalid", name |-> <<>>, stop |-> i]

\* The template from place i on as re.sub walks it: the matches of the
\* pattern, left to right, and the characters between them.
RECURSIVE TemplateTokens(_, _)
TemplateTokens(s, i) ==
    IF i > Len(s) THEN <<>>
    ELSE IF s[i] # "$"
    THEN <<[kind |-> "literal", name |-> <<>>, text |-> <<s[i]>>]>>
             \o TemplateTokens(s, i + 1)
    ELSE LET m == TemplateMatch(s, i)
         IN  <<[kind |-> m.kind, name |-> m.name, text |-> SubSeq(s, i, m.stop)]>>
                 \o TemplateTokens(s, m.stop + 1)

Done(text) == [exc |-> "", kind |-> "", name |-> <<>>, v |-> text]
Failed(cls, kind, missing) == [exc |-> cls, kind |-> kind, name |-> missing, v |-> <<>>]

\* substitute converting the matches from the last to the first.
RECURSIVE SubstituteLastFirst(_, _, _)
SubstituteLastFirst(tokens, k, mapping) ==
    IF k > Len(tokens) THEN Done(<<>>)
    ELSE LET t == tokens[k]
             rest == SubstituteLastFirst(tokens, k + 1, mapping)
         IN  IF rest.exc # "" THEN rest
             ELSE IF t.kind \in {"named", "braced"} /\ t.name \notin DOMAIN mapping
             THEN Failed("KeyError", "", t.name)
             ELSE IF t.kind = "invalid"
             THEN Failed("ValueError", "Invalid placeholder in string", <<>>)
             ELSE Done((CASE t.kind \in {"named", "braced"} -> mapping[t.name]
                          [] t.kind = "escaped" -> <<"$">>
                          [] OTHER -> t.text) \o rest.v)

\* Template.substitute: convert() of the match at tokens[k], then the rest.
RECURSIVE substitute(_, _, _)
substitute(tokens, k, mapping) ==
    IF k > Len(tokens) THEN Done(<<>>)
    ELSE LET t == tokens[k]
             converted ==
                 CASE t.kind \in {"named", "braced"} ->
                        IF t.name \in DOMAIN mapping
                        THEN Done(mapping[t.name])
                        ELSE Failed("KeyError", "", t.name)
                   [] t.kind = "escaped" -> Done(<<"$">>)
                   [] t.kind = "invalid" ->
                        Failed("ValueError", "Invalid placeholder in string", <<>>)
                   [] OTHER -> Done(t.text)
             rest == substitute(tokens, k + 1, mapping)
         IN  IF converted.exc # "" THEN converted
             ELSE IF rest.exc # "" THEN rest
             ELSE Done(converted.v \o rest.v)

\* safe_substitute putting nothing in the place of a missing variable.
RECURSIVE SafeSubstituteBlank(_, _, _)
SafeSubstituteBlank(tokens, k, mapping) ==
    IF k > Len(tokens) THEN <<>>
    ELSE LET t == tokens[k]
             converted ==
                 CASE t.kind \in {"named", "braced"} ->
                        IF t.name \in DOMAIN mapping THEN mapping[t.name] ELSE <<>>
                   [] t.kind = "escaped" -> <<"$">>
                   [] OTHER -> t.text
         IN  converted \o SafeSubstituteBlank(tokens, k + 1, mapping)

\* Template.safe_substitute
RECURSIVE safe_substitute(_, _, _)
safe_substitute(tokens, k, mapping) ==
    IF k > Len(tokens) THEN <<>>
    ELSE LET t == tokens[k]
             converted ==
                 CASE t.kind \in {"named", "braced"} ->
                        IF t.name \in DOMAIN mapping THEN mapping[t.name] ELSE t.text
                   [] t.kind = "escaped" -> <<"$">>
                   [] OTHER -> t.text
         IN  converted \o safe_substitute(tokens, k + 1, mapping)

\* str(e) of KeyError(key): the repr of the key.
KeyErrorStr(key) == <<"'">> \o key \o <<"'">>

\* text.strip("'")
RECURSIVE StripQuotes(_)
StripQuotes(text) ==
    IF text # <<>> /\ Head(text) = "'" THEN StripQuotes(Tail(text))
    ELSE IF text # <<>> /\ text[Len(text)] = "'"
    THEN StripQuotes(SubSeq(text, 1, Len(text) - 1))
    ELSE text

_render_content(self, kwargs) ==
    LET r == substitute(TemplateTokens(self.template_string, 1), 1, kwargs)
    IN  IF r.exc = "KeyError"
        THEN Failed("ValueError", "Missing required template variable",
                    StripQuotes(KeyErrorStr(r.name)))
        ELSE r

get_prompt_suffix(self) == self.suffix

\* f"{main_content}\n\n{suffix}" when there is a suffix
WithSuffix(main_content, suffix) ==
    IF Len(suffix) > 0 THEN main_content \o <<"\n", "\n">> \o suffix ELSE main_content

\* Prompt.render
render(self, kwargs) ==
    LET main_content == _render_content(self, kwargs)
    IN  IF main_content.exc # "" THEN main_content
        ELSE Done(WithSuffix(main_content.v, get_prompt_suffix(self)))

safe_render(self, kwargs) ==
    LET main_content == safe_substitute(TemplateTokens(self.template_string, 1), 1, kwargs)
    IN  Done(WithSuffix(main_content, get_prompt_suffix(self)))

\* re.findall(r'\$([a-zA-Z_][a-zA-Z0-9_]*)', s) from place i on.
RECURSIVE FindAll(_, _)
FindAll(s, i) ==
    IF i > Len(s) THEN <<>>
    ELSE IF s[i] = "$" /\ i + 1 <= Len(s) /\ IsIdStart(s[i + 1])
    THEN <<SubSeq(s, i + 1, IdEnd(s, i + 1))>> \o FindAll(s, IdEnd(s, i + 1) + 1)
    ELSE FindAll(s, i + 1)

\* get_template_variables returning the matches as found.
GetTemplateVariablesAsFound(self) == {FindAll(self.template_string, 1)}

\* The lists list(set(matches)) may be: the names once each, in any order.
get_template_variables(self) ==
    LET matches == Range(FindAll(self.template_string, 1))
    IN  {l \in [1..Cardinality(matches) -> matches] : Range(l) = matches}

----------------------------------------------------------------------------
(* The string template prompt as a state machine: a prompt, a parameter    *)
(* mapping, and the outcome of the latest call.                            *)

TemplateStrings == UNION {[1..n -> TemplateChars] : n \in 0..MaxTemplateLen}

Suffixes == {<<>>, <<"s">>}

ParamValues == [a |-> <<"x">>, u |-> <<"$", "a">>]

\* The parameter mappings: any of the names a and _ supplied.
ParamMappings ==
    { <<>>,
      (<<"a">> :> ParamValues.a),
      (<<"_">> :> ParamValues.u),
      (<<"a">> :> ParamValues.a) @@ (<<"_">> :> ParamValues.u) }

NoCall == [op |-> "", exc |-> "", kind |-> "", name |-> <<>>, v |-> <<>>]

TemplateInit ==
    /\ template \in [template_string : TemplateStrings, suffix : Suffixes]
    /\ params \in ParamMappings
    /\ rendered = NoCall
    /\ files = <<>>
    /\ view = <<>>
    /\ EngineIdle

Called(op, r) == [op |-> op, exc |-> r.exc, kind |-> r.kind, name |-> r.name, v |-> r.v]

Render ==
    /\ rendered' = Called("render", render(template, params))
    /\ UNCHANGED <<engineVars, viewVars, template, params, files>>

SafeRender ==
    /\ rendered' = Called("safe_render", safe_render(template, params))
    /\ UNCHANGED <<engineVars, viewVars, template, params, files>>

GetTemplateVariables ==
    /\ \E names \in get_template_variables(template) :
           rendered' = Called("get_template_variables", Done(names))
    /\ UNCHANGED <<engineVars, viewVars, template, params, files>>

TemplateNext == Render \/ SafeRender \/ GetTemplateVariables

SpecTemplate == TemplateInit /\ [][TemplateNext]_vars

----------------------------------------------------------------------------
(* FileTemplatePrompt: a prompt whose content is read from a file.  The    *)
(* file system maps each path to what is found there: nothing, a           *)
(* directory, a file that may not be opened, a file whose bytes are not    *)
(* UTF-8, or a text file with its characters.                              *)

Paths == {"p", "q"}

FileChars == {"a", "\r", "\n"}

Texts == UNION {[1..n -> FileChars] : n \in 0..MaxFileLen}

Found(kind, data) == [kind |-> kind, data |-> data]

FileStates ==
    {Found(k, <<>>) : k \in {"absent", "dir", "noperm", "badutf8"}}
        \cup {Found("text", d) : d \in Texts}

FileSystems == [Paths -> FileStates]

FileTemplatePrompt(template_path, suffix) == [template_path |-> template_path, suffix |-> suffix]

FileDone(text, opens) == [exc |-> "", kind |-> "", name |-> <<>>, v |-> text, opens |-> opens]
FileFailed(cls, kind, path, opens) == [exc |-> cls, kind |-> kind, name |-> <<path>>, v |-> <<>>, opens |-> opens]

\* Text mode with the default newline: "\r\n" and "\r" are read as "\n".
RECURSIVE UniversalNewlines(_, _)
UniversalNewlines(data, i) ==
    IF i > Len(data) THEN <<>>
    ELSE IF data[i] = "\r"
         THEN IF i < Len(data) /\ data[i + 1] = "\n"
              THEN <<"\n">> \o UniversalNewlines(data, i + 2)
              ELSE <<"\n">> \o UniversalNewlines(data, i + 1)
         ELSE <<data[i]>> \o UniversalNewlines(data, i + 1)

\* with open(path, 'r', encoding='utf-8') as f: return f.read()
OpenRead(fs, path) ==
    LET f == fs[path]
    IN  CASE f.kind = "absent"  -> FileFailed("FileNotFoundError", "No such file or directory", path, 1)
          [] f.kind = "dir"     -> FileFailed("IsADirectoryError", "Is a directory", path, 1)
          [] f.kind = "noperm"  -> FileFailed("PermissionError", "Permission denied", path, 1)
          [] f.kind = "badutf8" -> FileFailed("UnicodeDecodeError", "invalid start byte", path, 1)
          [] OTHER              -> FileDone(UniversalNewlines(f.data, 1), 1)

\* The subclasses of IOError (OSError) that open raises.
IsIOError(cls) == cls \in {"OSError", "FileNotFoundError", "IsADirectoryError", "PermissionError"}

\* FileTemplatePrompt._render_content
FileTemplatePrompt_render_content(self, fs, kwargs) ==
    LET r == OpenRead(fs, self.template_path)
    IN  IF r.exc = "" THEN r
        ELSE IF r.exc = "FileNotFoundError"
             THEN FileFailed("FileNotFoundError", "Template file not found", self.template_path, r.opens)
        ELSE IF IsIOError(r.exc)
             THEN FileFailed("OSError", "Could not read template file", self.template_path, r.opens)
        ELSE r

\* Prompt.render of a FileTemplatePrompt
FileTemplatePrompt_render(self, fs, kwargs) ==
    LET main_content == FileTemplatePrompt_render_content(self, fs, kwargs)
    IN  IF main_content.exc # "" THEN main_content
        ELSE FileDone(WithSuffix(main_content.v, get_prompt_suffix(self)), main_content.opens)

exists(fs, path) == fs[path].kind # "absent"

isfile(fs, path) == fs[path].kind \in {"noperm", "badutf8", "text"}

\* validate_params reporting what opening the file reports.
ValidateByOpening(self, fs, kwargs) ==
    LET r == FileTemplatePrompt_render_content(self, fs, kwargs)
    IN  IF r.exc # "" THEN r ELSE FileDone(<<>>, r.opens)

validate_params(self, fs, kwargs) ==
    IF ~exists(fs, self.template_path)
    THEN FileFailed("ValueError", "Template file not found", self.template_path, 0)
    ELSE IF ~isfile(fs, self.template_path)
         THEN FileFailed("ValueError", "Template path is not a file", self.template_path, 0)
         ELSE FileDone(<<>>, 0)

get_template_path(self) == self.template_path

\* set_template_path leaving the path as it was.
SetTemplatePathKept(self, path) ==
    self

set_template_path(self, path) ==
    [self EXCEPT !.template_path = path]

\* The outcome of the latest call, the path the caller assigned last, and
\* whether the file system is still as that call found it.
FileCalled(op, r, assigned) ==
    [op |-> op, exc |-> r.exc, kind |-> r.kind, name |-> r.name, v |-> r.v,
     opens |-> r.opens, path |-> assigned, fresh |-> TRUE]

\* The keyword arguments of a call: none, or the name a.
FileParamMappings == {<<>>, (<<"a">> :> ParamValues.a)}

FileInit ==
    /\ files \in FileSystems
    /\ \E template_path \in Paths, suffix \in Suffixes :
           /\ template = FileTemplatePrompt(template_path, suffix)
           /\ rendered = FileCalled("", FileDone(<<>>, 0), template_path)
    /\ params = <<>>
    /\ view = <<>>
    /\ EngineIdle

FileRender ==
    /\ \E kwargs \in FileParamMappings :
           /\ params' = kwargs
           /\ rendered' = FileCalled("render", FileTemplatePrompt_render(template, files, kwargs), rendered.path)
    /\ UNCHANGED <<engineVars, viewVars, template, files>>

ValidateParams ==
    /\ \E kwargs \in FileParamMappings :
           /\ params' = kwargs
           /\ rendered' = FileCalled("validate_params", validate_params(template, files, kwargs), rendered.path)
    /\ UNCHANGED <<engineVars, viewVars, template, files>>

GetTemplatePath ==
    /\ rendered' = FileCalled("get_template_path", FileDone(<<get_template_path(template)>>, 0), rendered.path)
    /\ UNCHANGED <<engineVars, viewVars, template, params, files>>

SetTemplatePath ==
    /\ \E path \in Paths :
           /\ template' = set_template_path(template, path)
           /\ rendered' = FileCalled("set_template_path", FileDone(<<>>, 0), path)
    /\ UNCHANGED <<engineVars, viewVars, params, files>>

\* What one change by another process makes of what is found at a path: it
\* removes it, makes a directory, protects it, writes bytes that are not
\* UTF-8, writes an empty file or appends a character.
Changes(f) ==
    {Found(k, <<>>) : k \in {"absent", "dir", "noperm", "badutf8", "text"}}
        \cup (IF f.kind = "text" /\ Len(f.data) < MaxFileLen
              THEN {Found("text", Append(f.data, c)) : c \in FileChars}
              ELSE {})

FileChange ==
    /\ \E path \in Paths :
           \E f \in Changes(files[path]) :
               /\ f # files[path]
               /\ files' = [files EXCEPT ![path] = f]
    /\ rendered' = [rendered EXCEPT !.fresh = FALSE]
    /\ UNCHANGED <<engineVars, viewVars, template, params>>

FileNext == FileRender \/ ValidateParams \/ GetTemplatePath \/ SetTemplatePath \/ FileChange

SpecFile == FileInit /\ [][FileNext]_vars

----------------------------------------------------------------------------
(* Claims about the engine. *)

FilterCall == last.op = "filter_models"
SortCall == last.op = "_apply_sort"

\* The entry is retained under the arguments: every requested capability is
\* supported, it is not deprecated unless those are included, and it has no
\* canonical slug mismatch unless those are included.
Retained(model, args) ==
    /\ FlagAnd(args.capabilities, 1) # 0 => supports_images(model).v
    /\ FlagAnd(args.capabilities, 2) # 0 => supports_structured_output(model).v
    /\ \/ args.include_deprecated
       \/ ~Truthy(description(model))
       \/ \A k \in 1..Len(_default_deprecation_keywords) :
              ~IsSubstring(_default_deprecation_keywords[k], Lower(description(model).v))
    /\ \/ args.include_problematic_variants
       \/ /\ has_canonical_slug_mismatch(model).exc = ""
          /\ ~has_canonical_slug_mismatch(model).v

RetainedSet(data, args) ==
    {ModelInfo(data[i]) : i \in {j \in 1..Len(data) : Retained(ModelInfo(data[j]), args)}}

\* C1: whenever the client answers, filter_models returns a list holding
\* exactly the entries of the catalog that satisfy the requested
\* capabilities, the deprecation rule and the variant rule.
C1_ReturnsExactlyRetained ==
    (FilterCall /\ last.exc # "RuntimeError") =>
        /\ last.exc = ""
        /\ Range(heap[last.ret]) = RetainedSet(catalog, last.args)
        /\ Len(heap[last.ret]) = Cardinality(RetainedSet(catalog, last.args))

\* C2: every invocation of filter_models makes exactly one list-models call
\* on the client, so the calls made equal the invocations made.
C2_OneListCallPerInvocation ==
    /\ FilterCall => last.calls = 1
    /\ listCalls = invocations

\* C3: an invocation of filter_models made while the client's list-models
\* call fails ends in RuntimeError carrying the client's error as its cause,
\* after one call on the client, and returns no list.
C3_FetchFailureIsWrapped ==
    [][(clientFails /\ invocations' = invocations + 1) =>
            /\ last'.exc = "RuntimeError"
            /\ last'.cause = "ClientError"
            /\ last'.calls = 1
            /\ last'.ret = 0
            /\ heap' = heap]_vars

\* The position of x in seq.
Pos(seq, x) == CHOOSE i \in 1..Len(seq) : seq[i] = x

IsPermutation(out, input) ==
    /\ Len(out) = Len(input)
    /\ Range(out) = Range(input)

ClaimKeyLess(sort_order, a, b) ==
    CASE sort_order \in {"PRICE_ASC", "PRICE_DESC"} ->
            FloatLess(get_pricing_per_1m_tokens(a).v, get_pricing_per_1m_tokens(b).v)
      [] sort_order \in {"NAME_ASC", "NAME_DESC"} ->
            StrLess(get_sort_name(a), get_sort_name(b))
      [] sort_order \in {"CONTEXT_ASC", "CONTEXT_DESC"} ->
            get_context_length_sort(a) < get_context_length_sort(b)

Ascending == {"PRICE_ASC", "NAME_ASC", "CONTEXT_ASC"}
Descending == {"PRICE_DESC", "NAME_DESC", "CONTEXT_DESC"}

OrderedBy(sort_order, out, input) ==
    \A i, j \in 1..Len(out) :
        i < j =>
            /\ sort_order \in Ascending => ~ClaimKeyLess(sort_order, out[j], out[i])
            /\ sort_order \in Descending => ~ClaimKeyLess(sort_order, out[i], out[j])
            /\ (/\ ~ClaimKeyLess(sort_order, out[i], out[j])
                /\ ~ClaimKeyLess(sort_order, out[j], out[i]))
                   => Pos(input, out[i]) < Pos(input, out[j])

C5_Intersective ==
    FilterCall =>
        \A A, B \in CapabilityFlags :
            FlagOr(A, B) = last.args.capabilities =>
                LET forA == filter_models(catalog, FALSE, A, last.args.include_deprecated,
                                          last.args.include_problematic_variants,
                                          last.args.sort_order)
                    forB == filter_models(catalog, FALSE, B, last.args.include_deprecated,
                                          last.args.include_problematic_variants,
                                          last.args.sort_order)
                IN  (last.exc # "RuntimeError") =>
                        /\ last.exc = "" /\ forA.exc = "" /\ forB.exc = ""
                        /\ Range(heap[last.ret]) \subseteq Range(forA.v)
                        /\ Range(heap[last.ret]) \subseteq Range(forB.v)

Absent(attr) == attr \notin DOMAIN view._model

\* The price of the entry is missing or is no number.
NoNumericPrice ==
    \/ Absent("pricing")
    \/ ~HasAttr(view._model.pricing, "prompt")
    \/ view._model.pricing.v.prompt.t # "str"
    \/ \E i \in 1..Len(view._model.pricing.v.prompt.v) :
           view._model.pricing.v.prompt.v[i] \notin Digits \cup {"."}

\* C7: no operation of the view raises, whichever optional attributes are
\* absent: the price is infinity for a missing or non-numeric price, the
\* image price is absent without pricing, the three capability checks are
\* false without their attribute, the sort name is the id without a name,
\* the sort context length is 0 without a context length, and the slug
\* mismatch check yields a boolean.
C7_ViewNeverRaises ==
    last.op # "" =>
        /\ last.exc = ""
        /\ (last.op = "get_pricing_per_1m_tokens" /\ NoNumericPrice)
               => last.args.result = PyFloat(Inf)
        /\ (last.op = "get_image_pricing" /\ Absent("pricing"))
               => last.args.result = PyNone
        /\ (last.op = "supports_images" /\ Absent("architecture"))
               => last.args.result = PyBool(FALSE)
        /\ (last.op = "supports_structured_output" /\ Absent("supported_parameters"))
               => last.args.result = PyBool(FALSE)
        /\ (last.op = "supports_reasoning" /\ Absent("supported_parameters"))
               => last.args.result = PyBool(FALSE)
        /\ (last.op = "get_sort_name" /\ Absent("name"))
               => last.args.result = PyStr(view._model.id)
        /\ (last.op = "get_context_length_sort" /\ Absent("context_length"))
               => last.args.result = PyInt(0)
        /\ last.op = "has_canonical_slug_mismatch" => last.args.result.t = "bool"

\* C7 without the two operations ModelInfo does not define.
C7_DefinedOperationsNeverRaise ==
    last.op \notin {"", "supports_reasoning", "has_canonical_slug_mismatch"}
        => C7_ViewNeverRaises

----------------------------------------------------------------------------
(* Claims about the string template prompt. *)

TemplateString == template.template_string

Supplied(nm) == nm \in DOMAIN params

\* The places of s[from..] up to which every character is of an identifier.
IdRunEnds(s, from) ==
    {j \in from..Len(s) : \A k \in from..j : IsIdChar(s[k])}

Max(S) == CHOOSE x \in S : \A y \in S : y <= x
Min(S) == CHOOSE x \in S : \A y \in S : x <= y

\* A "$" directly followed by an identifier, and that identifier.
DollarIdAt(s, i) ==
    /\ s[i] = "$"
    /\ i + 1 <= Len(s)
    /\ IsIdStart(s[i + 1])

DollarIdName(s, i) == SubSeq(s, i + 1, Max(IdRunEnds(s, i + 1)))

DollarIdPlaces(s) == {i \in 1..Len(s) : DollarIdAt(s, i)}

\* C10: get_template_variables returns the identifiers that directly follow
\* a "$" in the template string, each of them once.
C10_VariablesAreDollarIdentifiers ==
    rendered.op = "get_template_variables" =>
        LET names == {DollarIdName(TemplateString, i) : i \in DollarIdPlaces(TemplateString)}
        IN  /\ rendered.exc = ""
            /\ Range(rendered.v) = names
            /\ Len(rendered.v) = Cardinality(names)

\* One name occurs twice in the template and is returned once.
C10_Witness ==
    /\ rendered.op = "get_template_variables"
    /\ Len(rendered.v) = 1
    /\ Cardinality(DollarIdPlaces(TemplateString)) = 2

\* The number of "$" that directly precede place i.
DollarsBefore(s, i) ==
    Cardinality({j \in 1..(i - 1) : \A k \in j..(i - 1) : s[k] = "$"})

\* The "$" of place i is not the second "$" of an escape "$$".
Unescaped(s, i) == s[i] = "$" /\ DollarsBefore(s, i) % 2 = 0

\* The "$" of place i opens the braced form "${identifier}".
BracedAt(s, i) ==
    /\ i + 2 <= Len(s)
    /\ s[i + 1] = "{"
    /\ IsIdStart(s[i + 2])
    /\ Max(IdRunEnds(s, i + 2)) + 1 <= Len(s)
    /\ s[Max(IdRunEnds(s, i + 2)) + 1] = "}"

\* string.Template's placeholders: "$identifier" or "${identifier}" whose
\* "$" is not escaped.
PlaceholderAt(s, i) == Unescaped(s, i) /\ (DollarIdAt(s, i) \/ BracedAt(s, i))

PlaceholderName(s, i) ==
    IF DollarIdAt(s, i) THEN DollarIdName(s, i)
    ELSE SubSeq(s, i + 2, Max(IdRunEnds(s, i + 2)))

\* The last place of the placeholder that starts at i.
PlaceholderStop(s, i) ==
    IF DollarIdAt(s, i) THEN i + Len(PlaceholderName(s, i))
    ELSE i + Len(PlaceholderName(s, i)) + 2

\* A "$" that opens neither an escape nor a placeholder.
MalformedAt(s, i) ==
    /\ Unescaped(s, i)
    /\ ~(i + 1 <= Len(s) /\ s[i + 1] = "$")
    /\ ~DollarIdAt(s, i)
    /\ ~BracedAt(s, i)

MissingDollarIds == {i \in DollarIdPlaces(TemplateString) :
                        ~Supplied(DollarIdName(TemplateString, i))}

MissingPlaceholders ==
    {i \in 1..Len(TemplateString) :
        /\ PlaceholderAt(TemplateString, i)
        /\ ~Supplied(PlaceholderName(TemplateString, i))}

MissingMessage == "Missing required template variable"

RECURSIVE Flatten(_)
Flatten(pieces) ==
    IF pieces = <<>> THEN <<>> ELSE Head(pieces) \o Flatten(Tail(pieces))

\* The template with every supplied "$identifier" replaced by its value and
\* every other character as it is.
DollarIdSubstituted(s) ==
    Flatten([i \in 1..Len(s) |->
        IF DollarIdAt(s, i) /\ Supplied(DollarIdName(s, i))
        THEN params[DollarIdName(s, i)]
        ELSE IF \E p \in 1..(i - 1) :
                    /\ DollarIdAt(s, p)
                    /\ Supplied(DollarIdName(s, p))
                    /\ i <= p + Len(DollarIdName(s, p))
        THEN <<>>
        ELSE <<s[i]>>])

\* The template with every supplied placeholder of string.Template replaced
\* by its value, the second "$" of every escape dropped and every other
\* character as it is.
PlaceholderSubstituted(s) ==
    Flatten([i \in 1..Len(s) |->
        IF PlaceholderAt(s, i) /\ Supplied(PlaceholderName(s, i))
        THEN params[PlaceholderName(s, i)]
        ELSE IF \E p \in 1..(i - 1) :
                    /\ PlaceholderAt(s, p)
                    /\ Supplied(PlaceholderName(s, p))
                    /\ i <= PlaceholderStop(s, p)
        THEN <<>>
        ELSE IF s[i] = "$" /\ ~Unescaped(s, i)
        THEN <<>>
        ELSE <<s[i]>>])

BlankLine == <<"\n", "\n">>

SuffixPart == IF template.suffix = <<>> THEN <<>> ELSE BlankLine \o template.suffix

\* C9 as stated: safe render never fails and returns the template with the
\* supplied "$identifier" placeholders substituted and everything else
\* verbatim, then the suffix after a blank line when there is one.
C9_SafeRenderSubstitutesSupplied ==
    rendered.op = "safe_render" =>
        /\ rendered.exc = ""
        /\ rendered.v = DollarIdSubstituted(TemplateString) \o SuffixPart

\* C9 amended: safe render never fails and returns the template with every
\* supplied placeholder of string.Template ($name or ${name}, not escaped)
\* substituted, every escape "$$" as one "$" and everything else verbatim,
\* then the suffix after a blank line when there is one.
C9_SafeRenderSubstitutesPlaceholders ==
    rendered.op = "safe_render" =>
        /\ rendered.exc = ""
        /\ rendered.v = PlaceholderSubstituted(TemplateString) \o SuffixPart

\* A supplied and an unsupplied placeholder in a prompt with a suffix.
C9_Witness ==
    /\ rendered.op = "safe_render"
    /\ template.suffix # <<>>
    /\ MissingPlaceholders # {}
    /\ \E i \in 1..Len(TemplateString) :
           /\ PlaceholderAt(TemplateString, i)
           /\ Supplied(PlaceholderName(TemplateString, i))


----------------------------------------------------------------------------
(* Claims about the file template prompt. *)

\* What is found at the path the prompt holds.
AtPath == files[template.template_path]

\* The latest call was op and the files are as it found them.
JustCalled(op) == rendered.op = op /\ rendered.fresh

\* C11: a file template whose path does not exist fails with the same
\* not-found error at validate_params and at render, an error that is not
\* the read error of a file that cannot be read, and validate_params opens
\* no file.
C11_SameNotFoundError ==
    AtPath.kind = "absent" =>
        /\ JustCalled("validate_params") =>
               /\ rendered.exc # ""
               /\ rendered.exc = FileTemplatePrompt_render(template, files, params).exc
               /\ rendered.opens = 0
        /\ JustCalled("render") =>
               /\ rendered.exc # ""
               /\ rendered.exc = validate_params(template, files, params).exc
               /\ rendered.exc # "OSError"

\* C11, as the code has it: render of a missing path raises
\* FileNotFoundError and of a file that may not be opened OSError (IOError),
\* validate_params of a missing path raises ValueError "Template file not
\* found" and opens no file.
C11_NotFoundAtRenderAndValidation ==
    /\ AtPath.kind = "absent" =>
           /\ JustCalled("render") =>
                  /\ rendered.exc = "FileNotFoundError"
                  /\ rendered.kind = "Template file not found"
           /\ JustCalled("validate_params") =>
                  /\ rendered.exc = "ValueError"
                  /\ rendered.kind = "Template file not found"
                  /\ rendered.opens = 0
    /\ AtPath.kind = "noperm" =>
           /\ JustCalled("render") =>
                  /\ rendered.exc = "OSError"
                  /\ rendered.kind = "Could not read template file"
           /\ JustCalled("validate_params") => rendered.opens = 0

C11_Witness ==
    /\ AtPath.kind = "absent"
    /\ JustCalled("validate_params")
    /\ rendered.exc = "ValueError"

\* What is found at the path assigned last, by construction or by
\* set_template_path.
Assigned == files[rendered.path]

\* The places of the characters of d other than a "\r" before a "\n".
KeptPlaces(d) ==
    {i \in 1..Len(d) : ~(d[i] = "\r" /\ i < Len(d) /\ d[i + 1] = "\n")}

\* d with the line endings "\r\n" and "\r" written as "\n".
LineEndingsAsNewline(d) ==
    LET K == KeptPlaces(d)
        Nth(k) == CHOOSE i \in K : Cardinality({j \in K : j <= i}) = k
    IN  [k \in 1..Cardinality(K) |-> IF d[Nth(k)] = "\r" THEN "\n" ELSE d[Nth(k)]]

\* The text followed by a blank line and the suffix of the prompt, if any.
FollowedBySuffix(text) ==
    IF template.suffix = <<>> THEN text ELSE text \o <<"\n", "\n">> \o template.suffix

\* C12: after any constructions, path reassignments, file changes and
\* renders, render returns the entire content that the file at the path
\* assigned last holds at that moment, whatever the parameters.
C12_RenderReturnsFileContent ==
    (JustCalled("render") /\ Assigned.kind = "text") =>
        /\ rendered.exc = ""
        /\ rendered.v = Assigned.data

\* C12, as the code has it: render opens the file at the path assigned
\* last and returns its text with the line endings "\r\n" and "\r" read as
\* "\n", followed by the suffix of the prompt if there is one, whatever the
\* parameters.
C12_RenderReadsAssignedFile ==
    (JustCalled("render") /\ Assigned.kind = "text") =>
        /\ rendered.exc = ""
        /\ rendered.opens = 1
        /\ rendered.v = FollowedBySuffix(LineEndingsAsNewline(Assigned.data))

C12_Witness ==
    /\ JustCalled("render")
    /\ Assigned.kind = "text"
    /\ Len(Assigned.data) > 0
    /\ params # <<>>
    /\ \E other \in Paths :
           /\ files[other].kind = "text"
           /\ files[other].data # Assigned.data
    /\ rendered.v = FollowedBySuffix(LineEndingsAsNewline(Assigned.data))

----------------------------------------------------------------------------
(* Claims relating get_template_variables and strict render. *)

\* The mapping supplies every name of the list.
SuppliesAll(names) == \A k \in 1..Len(names) : Supplied(names[k])

\* C13: strict render succeeds exactly when the parameter mapping supplies
\* every name that get_template_variables returns, templates with "$$name"
\* and "${name}" included.
C13_VariablesDecideStrictRender ==
    /\ rendered.op = "render" =>
           \A names \in get_template_variables(template) :
               rendered.exc = "" <=> SuppliesAll(names)
    /\ rendered.op = "get_template_variables" =>
           (render(template, params).exc = "" <=> SuppliesAll(rendered.v))

====
